---- MODULE Spec2Model ----
(***************************************************************************)
(* Model of access_audio.py: the ServerManager (port selection, launch of  *)
(* the uvicorn thread, readiness poll, live health probe) and the proxy    *)
(* routes /audio (download into audio_cache, then FileResponse) and        *)
(* /list-audio (GitHub contents listing filtered to audio files).          *)
(*                                                                         *)
(* Three groups of variables, each driven by its own specification:        *)
(*   AudioSpec    remote, cache, req, calls                                *)
(*   ListSpec     listing, listReply (cache and calls are in its frame)    *)
(*   ManagerSpec  the ServerManager, its callers, the units and the ports  *)
(***************************************************************************)
EXTENDS Integers, Sequences, FiniteSets, TLC

\* ------------------------------------------------------------------ bounds
\* Number of /audio requests a behaviour issues.
MaxRequests == 3

\* Length of the longest remote directory listing.
MaxListing == 3

\* Number of ports find_available_port probes; the source probes 50 (line 33).
RangeLen == 3
\* Number of health GETs the readiness poll issues before its deadline has
\* passed; the source polls for SERVER_START_TIMEOUT seconds (lines 20, 58).
MaxPolls == 2
\* Number of background threads a behaviour launches.
MaxUnits == 2

\* ------------------------------------------------------------- /audio route
VARIABLES
    remote,     \* raw.githubusercontent.com: file_path -> body bytes
    cache,      \* audio_cache/: base name -> bytes of the file, or NoEntry
    req,        \* the /audio requests, in the order their handlers ran
    calls,      \* file_path -> number of requests.get(audio_url) issued
    excStr      \* what str() makes of an HTTPException raised with keyword
                \* arguments in the installed Starlette: "text" or "empty"

audioVars == <<remote, cache, req, calls, excStr>>

VARIABLES
    listing,    \* what api.github.com answers to the listing call
    listReply   \* what /list-audio answered: status and JSON body

listVars == <<listing, listReply>>

VARIABLES
    port,            \* self.port; 0 is None
    server_thread,   \* self.server_thread: the unit last launched; 0 is None
    server_started,  \* self.server_started
    units,           \* the threads launched: state and the port uvicorn bound
    taken,           \* ports held by other processes
    foreignMode,     \* how those processes treat GET /health
    pc,              \* where each caller of the manager stands
    elapsed,         \* per caller: health GETs of the running readiness poll
    out,             \* per caller: how its last start_server call ended
    got200,          \* per caller: a GET of its readiness poll answered 200
    afterDown,       \* per caller: its start_server call began after the manager
                     \* had been ready and is_server_running had returned False
    probe,           \* result of the last is_server_running since the last launch:
                     \* "up", "down" after a health GET, "unset" without one
    everReady        \* server_started has been True at some time

mgrVars == <<port, server_thread, server_started, units, taken, foreignMode, pc,
             elapsed, out, got200, afterDown, probe, everReady>>

\* A file_path is the sequence of its '/'-separated segments.
PathA == <<"d1", "x.mp3">>
PathB == <<"d2", "x.mp3">>
PathC == <<"y.mp3">>
Paths == {PathA, PathB, PathC}

\* os.path.basename(file_path): the segment after the last '/'.
basename(p) == p[Len(p)]

BaseNames == {basename(p) : p \in Paths}

\* Bodies are byte sequences; two bodies of different length.
Body1 == <<1>>
Body2 == <<2, 2>>
Contents == {Body1, Body2}

\* Sentinels: no file of that name in audio_cache/, no bytes, no path.
NoEntry == <<-1>>
NoBytes == <<-1>>
NoPath == <<>>

\* What requests.get(audio_url) + raise_for_status() can do (lines 133-134).
FetchOutcomes == {"ok", "http_error", "transport_error"}
\* What open(local_path, 'wb') + f.write can do (lines 136-137).
WriteOutcomes == {"ok", "open_fails", "write_fails"}

\* str(e) of line 91.  An OSError carries its message.  An HTTPException built
\* as at line 141 has no positional args: its str() is "" unless the class
\* defines __str__, which only later Starlette releases do.
ExcStrs == {"text", "empty"}

NewReq == [pc |-> "new", path |-> NoPath, fetched |-> NoBytes, status |-> 0,
           body |-> NoBytes, error |-> "none", cached |-> FALSE, solo |-> FALSE]

\* The repository as first seen; only the files of Mutable change afterwards.
InitialRemote == (PathA :> Body1) @@ (PathB :> Body2) @@ (PathC :> Body1)
Mutable == {PathA}

AudioInit ==
    /\ remote = InitialRemote
    /\ cache = [b \in BaseNames |-> NoEntry]
    /\ req = [i \in 1..MaxRequests |-> NewReq]
    /\ calls = [p \in Paths |-> 0]
    /\ excStr \in ExcStrs

\* Requests are numbered in the order their handlers run.
NextReq == IF \E i \in 1..MaxRequests : req[i].pc = "new"
           THEN CHOOSE i \in 1..MaxRequests :
                    /\ req[i].pc = "new"
                    /\ \A j \in 1..(i - 1) : req[j].pc # "new"
           ELSE 0

AllDoneBefore(i) == \A j \in 1..(i - 1) : req[j].pc = "done"

\* A variant that opens the cache file for appending ('ab') instead of 'wb'.
download_audio_from_github_appending(i, p, fo, wo) ==
    /\ calls' = [calls EXCEPT ![p] = @ + 1]
    /\ IF fo # "ok"
       THEN /\ cache' = cache
            /\ req' = [req EXCEPT ![i] =
                   [pc |-> "done", path |-> p, fetched |-> NoBytes, status |-> 500,
                    body |-> NoBytes, error |-> excStr, cached |-> cache[basename(p)] # NoEntry,
                    solo |-> AllDoneBefore(i)]]
       ELSE IF wo = "open_fails"
       THEN /\ cache' = cache
            /\ req' = [req EXCEPT ![i] =
                   [pc |-> "done", path |-> p, fetched |-> remote[p], status |-> 500,
                    body |-> NoBytes, error |-> "text", cached |-> cache[basename(p)] # NoEntry,
                    solo |-> AllDoneBefore(i)]]
       ELSE IF wo = "write_fails"
       THEN /\ cache' = [cache EXCEPT ![basename(p)] = IF @ = NoEntry THEN <<>> ELSE @]
            /\ req' = [req EXCEPT ![i] =
                   [pc |-> "done", path |-> p, fetched |-> remote[p], status |-> 500,
                    body |-> NoBytes, error |-> "text", cached |-> cache[basename(p)] # NoEntry,
                    solo |-> AllDoneBefore(i)]]
       ELSE /\ cache' = [cache EXCEPT ![basename(p)] =
                            IF @ = NoEntry THEN remote[p] ELSE @ \o remote[p]]
            /\ req' = [req EXCEPT ![i] =
                   [pc |-> "serving", path |-> p, fetched |-> remote[p], status |-> 0,
                    body |-> NoBytes, error |-> "none", cached |-> cache[basename(p)] # NoEntry,
                    solo |-> AllDoneBefore(i)]]

\* A variant that writes the decoded text of the response, re-encoded.
download_audio_from_github_text(i, p, fo, wo) ==
    /\ calls' = [calls EXCEPT ![p] = @ + 1]
    /\ IF fo # "ok"
       THEN /\ cache' = cache
            /\ req' = [req EXCEPT ![i] =
                   [pc |-> "done", path |-> p, fetched |-> NoBytes, status |-> 500,
                    body |-> NoBytes, error |-> excStr, cached |-> cache[basename(p)] # NoEntry,
                    solo |-> AllDoneBefore(i)]]
       ELSE IF wo = "open_fails"
       THEN /\ cache' = cache
            /\ req' = [req EXCEPT ![i] =
                   [pc |-> "done", path |-> p, fetched |-> remote[p], status |-> 500,
                    body |-> NoBytes, error |-> "text", cached |-> cache[basename(p)] # NoEntry,
                    solo |-> AllDoneBefore(i)]]
       ELSE IF wo = "write_fails"
       THEN /\ cache' = [cache EXCEPT ![basename(p)] = <<>>]
            /\ req' = [req EXCEPT ![i] =
                   [pc |-> "done", path |-> p, fetched |-> remote[p], status |-> 500,
                    body |-> NoBytes, error |-> "text", cached |-> cache[basename(p)] # NoEntry,
                    solo |-> AllDoneBefore(i)]]
       ELSE /\ cache' = [cache EXCEPT ![basename(p)] = <<0>> \o remote[p]]
            /\ req' = [req EXCEPT ![i] =
                   [pc |-> "serving", path |-> p, fetched |-> remote[p], status |-> 0,
                    body |-> NoBytes, error |-> "none", cached |-> cache[basename(p)] # NoEntry,
                    solo |-> AllDoneBefore(i)]]

\* A variant that opens the cache file before it fetches.
download_audio_from_github_open_first(i, p, fo, wo) ==
    /\ calls' = [calls EXCEPT ![p] = @ + 1]
    /\ IF fo # "ok"
       THEN /\ cache' = [cache EXCEPT ![basename(p)] = <<>>]
            /\ req' = [req EXCEPT ![i] =
                   [pc |-> "done", path |-> p, fetched |-> NoBytes, status |-> 500,
                    body |-> NoBytes, error |-> excStr, cached |-> cache[basename(p)] # NoEntry,
                    solo |-> AllDoneBefore(i)]]
       ELSE IF wo = "open_fails"
       THEN /\ cache' = cache
            /\ req' = [req EXCEPT ![i] =
                   [pc |-> "done", path |-> p, fetched |-> remote[p], status |-> 500,
                    body |-> NoBytes, error |-> "text", cached |-> cache[basename(p)] # NoEntry,
                    solo |-> AllDoneBefore(i)]]
       ELSE IF wo = "write_fails"
       THEN /\ cache' = [cache EXCEPT ![basename(p)] = <<>>]
            /\ req' = [req EXCEPT ![i] =
                   [pc |-> "done", path |-> p, fetched |-> remote[p], status |-> 500,
                    body |-> NoBytes, error |-> "text", cached |-> cache[basename(p)] # NoEntry,
                    solo |-> AllDoneBefore(i)]]
       ELSE /\ cache' = [cache EXCEPT ![basename(p)] = remote[p]]
            /\ req' = [req EXCEPT ![i] =
                   [pc |-> "serving", path |-> p, fetched |-> remote[p], status |-> 0,
                    body |-> NoBytes, error |-> "none", cached |-> cache[basename(p)] # NoEntry,
                    solo |-> AllDoneBefore(i)]]

\* download_audio_from_github (lines 122-141) as called by get_audio_file
\* (lines 87-88).  It never looks at the cache: requests.get is the first
\* statement of its try block.  The handler is an async def with no await,
\* so lines 87-91 run as one step of the event loop.
\*   fo  outcome of the remote GET, wo  outcome of the file write.
download_audio_from_github(i, p, fo, wo) ==
    /\ calls' = [calls EXCEPT ![p] = @ + 1]
    /\ IF fo # "ok"
       THEN \* RequestException -> HTTPException(404) -> caught at line 90
            /\ cache' = cache
            /\ req' = [req EXCEPT ![i] =
                   [pc |-> "done", path |-> p, fetched |-> NoBytes, status |-> 500,
                    body |-> NoBytes, error |-> excStr, cached |-> cache[basename(p)] # NoEntry,
                    solo |-> AllDoneBefore(i)]]
       ELSE IF wo = "open_fails"
       THEN \* OSError from open(): not a RequestException, caught at line 90
            /\ cache' = cache
            /\ req' = [req EXCEPT ![i] =
                   [pc |-> "done", path |-> p, fetched |-> remote[p], status |-> 500,
                    body |-> NoBytes, error |-> "text", cached |-> cache[basename(p)] # NoEntry,
                    solo |-> AllDoneBefore(i)]]
       ELSE IF wo = "write_fails"
       THEN \* 'wb' has truncated the file before f.write raises
            /\ cache' = [cache EXCEPT ![basename(p)] = <<>>]
            /\ req' = [req EXCEPT ![i] =
                   [pc |-> "done", path |-> p, fetched |-> remote[p], status |-> 500,
                    body |-> NoBytes, error |-> "text", cached |-> cache[basename(p)] # NoEntry,
                    solo |-> AllDoneBefore(i)]]
       ELSE \* lines 136-139: the file now holds response.content
            /\ cache' = [cache EXCEPT ![basename(p)] = remote[p]]
            /\ req' = [req EXCEPT ![i] =
                   [pc |-> "serving", path |-> p, fetched |-> remote[p], status |-> 0,
                    body |-> NoBytes, error |-> "none", cached |-> cache[basename(p)] # NoEntry,
                    solo |-> AllDoneBefore(i)]]

\* GET /audio/{owner}/{repo}/{branch}/{file_path}: the handler body, lines 85-91.
get_audio_file(p, fo, wo) ==
    /\ NextReq # 0
    /\ download_audio_from_github(NextReq, p, fo, wo)
    /\ UNCHANGED <<remote, excStr, listVars, mgrVars>>

\* FileResponse(local_path), line 89: the file is read when the response is
\* sent, after the handler has returned; other handlers may run in between.
SendFile(i) ==
    /\ req[i].pc = "serving"
    /\ req' = [req EXCEPT ![i].pc = "done", ![i].status = 200,
                          ![i].body = cache[basename(req[i].path)]]
    /\ UNCHANGED <<remote, cache, calls, excStr, listVars, mgrVars>>

\* The repository changes a file.
RemoteChange(p, c) ==
    /\ p \in Mutable
    /\ remote[p] # c
    /\ remote' = [remote EXCEPT ![p] = c]
    /\ UNCHANGED <<cache, req, calls, excStr, listVars, mgrVars>>

AudioNext ==
    \/ \E p \in Paths, fo \in FetchOutcomes, wo \in WriteOutcomes : get_audio_file(p, fo, wo)
    \/ \E i \in 1..MaxRequests : SendFile(i)
    \/ \E p \in Paths, c \in Contents : RemoteChange(p, c)

\* -------------------------------------------------------- /list-audio route
\* A name is the sequence of its characters.
NameA == <<"a", ".", "m", "p", "3">>
NameB == <<"b", ".", "t", "x", "t">>
NameC == <<"c", ".", "F", "L", "A", "C">>
NameD == <<"m", "p", "3">>
NameE == <<".", "m", "4", "a">>
NameF == <<"f", ".", "O", "g", "g">>
NameH == <<"h", ".", "w", "a", "v">>
Names == {NameA, NameB, NameC, NameD, NameE, NameF, NameH}

\* Variant: the name is compared in the case it arrives in.
lower_as_is(s) == s

\* str.lower() on the characters that occur in Names.
UpperToLower == ("A" :> "a") @@ ("C" :> "c") @@ ("F" :> "f") @@ ("L" :> "l")
                @@ ("O" :> "o")
lower(s) == [i \in 1..Len(s) |->
                IF s[i] \in DOMAIN UpperToLower THEN UpperToLower[s[i]] ELSE s[i]]

\* SUPPORTED_FORMATS, line 19.
SUPPORTED_FORMATS == << <<".", "m", "p", "3">>, <<".", "w", "a", "v">>,
                        <<".", "o", "g", "g">>, <<".", "f", "l", "a", "c">>,
                        <<".", "m", "4", "a">> >>

\* str.endswith(tuple): some suffix of the tuple ends s.
endswith(s, sufs) ==
    \E k \in 1..Len(sufs) :
        /\ Len(s) >= Len(sufs[k])
        /\ SubSeq(s, Len(s) - Len(sufs[k]) + 1, Len(s)) = sufs[k]

\* An entry of the JSON array: a dict with optional 'type' and 'name' keys,
\* or a value that is no dict.  A missing 'type' is Absent; a missing 'name'
\* is the empty name, which is what item.get('name', '') makes of it.
Absent == "Absent"
NoName == <<>>
Items ==
    [dict : {TRUE}, type : {"file"}, name : Names]
    \cup { [dict |-> TRUE, type |-> "dir", name |-> NameA],
           [dict |-> TRUE, type |-> "file", name |-> NoName],
           [dict |-> TRUE, type |-> Absent, name |-> NameA],
           [dict |-> FALSE, type |-> Absent, name |-> NoName] }

\* The condition of the comprehension, lines 113-115.
is_audio_item(item) ==
    /\ item.dict
    /\ item.type = "file"
    /\ endswith(lower(item.name), SUPPORTED_FORMATS)

\* The list comprehension, lines 111-116.
RECURSIVE audio_files(_)
audio_files(contents) ==
    IF contents = <<>> THEN <<>>
    ELSE (IF is_audio_item(Head(contents)) THEN <<Head(contents).name>> ELSE <<>>)
         \o audio_files(Tail(contents))

Listings == UNION { [1..n -> Items] : n \in 0..MaxListing }

\* What requests.get(api_url), raise_for_status() and json() can give.
ListResponses ==
    { [kind |-> k, items |-> <<>>] : k \in {"transport_error", "http_error", "not_list"} }
    \cup { [kind |-> "list", items |-> l] : l \in Listings }

\* Variant: the isinstance(contents, list) test of line 108 is left out.
list_audio_reply_unchecked(resp) ==
    IF resp.kind \in {"transport_error", "http_error"}
    THEN [status |-> 404, error |-> TRUE, audio_files |-> <<>>]
    ELSE [status |-> 200, error |-> FALSE, audio_files |-> audio_files(resp.items)]

\* GET /list-audio/{owner}/{repo}/{branch}/{path}, lines 94-120.
list_audio_reply(resp) ==
    IF resp.kind \in {"transport_error", "http_error"}
    THEN [status |-> 404, error |-> TRUE, audio_files |-> <<>>]
    ELSE IF resp.kind = "not_list"
    THEN [status |-> 400, error |-> TRUE, audio_files |-> <<>>]
    ELSE [status |-> 200, error |-> FALSE, audio_files |-> audio_files(resp.items)]

\* One call of the route; the remote's answer is the one drawn in ListInit.
list_audio_files ==
    /\ listing.kind # "none"
    /\ listReply.status = 0
    /\ listReply' = list_audio_reply(listing)
    /\ UNCHANGED <<listing, audioVars, mgrVars>>

NoListing == [kind |-> "none", items |-> <<>>]
NoReply == [status |-> 0, error |-> FALSE, audio_files |-> <<>>]

\* The cache directory as earlier /audio requests may have left it.
CacheStates == [BaseNames -> {NoEntry, Body1}]

\* ------------------------------------------------------------ ServerManager
\* start_port, line 31.
StartPort == 8000
Ports == StartPort..(StartPort + RangeLen - 1)
Units == 1..MaxUnits
Callers == {"main", "rerun"}
ForeignModes == {"ok", "err", "silent"}

Alive(u) == units[u].st \in {"starting", "listening", "stalled"}
Holds(u, p) == units[u].st \in {"listening", "stalled"} /\ units[u].port = p

\* s.bind(('localhost', port)) succeeds, line 36.
Bindable(p) == p \notin taken /\ \A u \in Units : ~Holds(u, p)

\* find_available_port, lines 31-40: the first port of the range whose bind
\* succeeds; 0 stands for the OSError of line 40.
RECURSIVE probe_from(_, _)
probe_from(q, last) ==
    IF q > last THEN 0
    ELSE IF Bindable(q) THEN q
    ELSE probe_from(q + 1, last)

\* Variant: the probe starts one port above start_port.
find_available_port_skipping(start_port) ==
    probe_from(start_port + 1, start_port + RangeLen - 1)

find_available_port(start_port) == probe_from(start_port, start_port + RangeLen - 1)

\* What a GET http://localhost:p/health meets.
HealthAt(p) ==
    IF \E u \in Units : units[u].st = "listening" /\ units[u].port = p THEN "200"
    ELSE IF \E u \in Units : units[u].st = "stalled" /\ units[u].port = p THEN "hang"
    ELSE IF p \notin taken THEN "refused"
    ELSE IF foreignMode = "ok" THEN "200"
    ELSE IF foreignMode = "err" THEN "non200"
    ELSE "hang"

\* Variants of the liveness test: a thread that answers /health; a thread
\* object that exists.
ThreadAnswering == server_thread # 0 /\ units[server_thread].st = "listening"
ThreadCreated == server_thread # 0

\* self.server_thread and self.server_thread.is_alive(), line 44.
ThreadAlive == server_thread # 0 /\ Alive(server_thread)

\* A thread object is left to create.
NextUnit == IF \E u \in Units : units[u].st = "unborn"
            THEN CHOOSE u \in Units : units[u].st = "unborn"
                                      /\ \A v \in 1..(u - 1) : units[v].st # "unborn"
            ELSE 0

\* A variant that gives up when another caller is inside start_server.
start_server_locked(c) ==
    /\ pc[c] = "idle"
    /\ NextUnit # 0
    /\ afterDown' = [afterDown EXCEPT ![c] = everReady /\ probe = "down"]
    /\ got200' = [got200 EXCEPT ![c] = FALSE]
    /\ IF ThreadAlive \/ \E d \in Callers \ {c} : pc[d] # "idle"
       THEN /\ out' = [out EXCEPT ![c] = "noop"]
            /\ pc' = pc
       ELSE /\ out' = [out EXCEPT ![c] = "none"]
            /\ pc' = [pc EXCEPT ![c] = "find"]
    /\ UNCHANGED <<audioVars, listVars, port, server_thread, server_started, units, taken, foreignMode,
                   elapsed, probe, everReady>>

\* start_server, lines 42-45: the liveness check.
start_server(c) ==
    /\ pc[c] = "idle"
    /\ NextUnit # 0
    /\ afterDown' = [afterDown EXCEPT ![c] = everReady /\ probe = "down"]
    /\ got200' = [got200 EXCEPT ![c] = FALSE]
    /\ IF ThreadAlive
       THEN /\ out' = [out EXCEPT ![c] = "noop"]
            /\ pc' = pc
       ELSE /\ out' = [out EXCEPT ![c] = "none"]
            /\ pc' = [pc EXCEPT ![c] = "find"]
    /\ UNCHANGED <<audioVars, listVars, port, server_thread, server_started, units, taken, foreignMode,
                   elapsed, probe, everReady>>

\* Variant: line 48 is left out.
select_port_keeping_flag(c) ==
    /\ pc[c] = "find"
    /\ LET p == find_available_port(StartPort) IN
       IF p = 0
       THEN /\ out' = [out EXCEPT ![c] = "raised"]
            /\ pc' = [pc EXCEPT ![c] = "idle"]
            /\ UNCHANGED <<port, server_started>>
       ELSE /\ port' = p
            /\ server_started' = server_started
            /\ pc' = [pc EXCEPT ![c] = "launch"]
            /\ out' = out
    /\ UNCHANGED <<audioVars, listVars, server_thread, units, taken, foreignMode,
                   elapsed, got200, afterDown, probe, everReady>>

\* A variant that clears the flag before it looks for a port.
select_port_reset_first(c) ==
    /\ pc[c] = "find"
    /\ server_started' = FALSE
    /\ LET p == find_available_port(StartPort) IN
       IF p = 0
       THEN /\ out' = [out EXCEPT ![c] = "raised"]
            /\ pc' = [pc EXCEPT ![c] = "idle"]
            /\ port' = port
       ELSE /\ port' = p
            /\ pc' = [pc EXCEPT ![c] = "launch"]
            /\ out' = out
    /\ UNCHANGED <<audioVars, listVars, server_thread, units, taken, foreignMode,
                   elapsed, got200, afterDown, probe, everReady>>

\* start_server, lines 47-48.
select_port(c) ==
    /\ pc[c] = "find"
    /\ LET p == find_available_port(StartPort) IN
       IF p = 0
       THEN /\ out' = [out EXCEPT ![c] = "raised"]
            /\ pc' = [pc EXCEPT ![c] = "idle"]
            /\ UNCHANGED <<audioVars, listVars, port, server_started>>
       ELSE /\ port' = p
            /\ server_started' = FALSE
            /\ pc' = [pc EXCEPT ![c] = "launch"]
            /\ out' = out
    /\ UNCHANGED <<audioVars, listVars, server_thread, units, taken, foreignMode, elapsed, got200,
                   afterDown, probe, everReady>>

\* start_server, lines 50-57: the thread is created and started.  Line 53
\* overwrites the only reference to the previous Thread object: how that
\* thread ended is no longer of any consequence.
launch(c) ==
    /\ pc[c] = "launch"
    /\ NextUnit # 0
    /\ units' = [u \in Units |->
                    IF u = NextUnit THEN [st |-> "starting", port |-> 0]
                    ELSE IF units[u].st = "failed" THEN [st |-> "dead", port |-> 0]
                    ELSE units[u]]
    /\ server_thread' = NextUnit
    /\ elapsed' = [elapsed EXCEPT ![c] = 0]
    /\ probe' = "none"
    /\ pc' = [pc EXCEPT ![c] = "poll"]
    /\ UNCHANGED <<audioVars, listVars, port, server_started, taken, foreignMode, out, got200,
                   afterDown, everReady>>

\* The effect of one answer to the GET of line 60 on the poll, lines 61-64.
poll_answer(c, h) ==
    /\ server_started' = (server_started \/ h = "200")
    /\ everReady' = (everReady \/ h = "200")
    /\ got200' = [got200 EXCEPT ![c] = @ \/ h = "200"]

\* start_server, lines 58-64: one turn of the readiness loop, or its exit.
poll(c) ==
    /\ pc[c] = "poll"
    /\ IF server_started \/ elapsed[c] >= MaxPolls
       THEN /\ pc' = [pc EXCEPT ![c] = "idle"]
            /\ out' = [out EXCEPT ![c] = "done"]
            /\ elapsed' = [elapsed EXCEPT ![c] = 0]
            /\ UNCHANGED <<audioVars, listVars, server_started, everReady, got200>>
       ELSE IF HealthAt(port) = "hang"
       THEN \* requests.get has no timeout here
            /\ pc' = [pc EXCEPT ![c] = "blocked"]
            /\ UNCHANGED <<audioVars, listVars, server_started, everReady, got200, elapsed, out>>
       ELSE /\ poll_answer(c, HealthAt(port))
            /\ elapsed' = [elapsed EXCEPT ![c] = @ + 1]
            /\ UNCHANGED <<pc, out>>
    /\ UNCHANGED <<audioVars, listVars, port, server_thread, units, taken, foreignMode, afterDown,
                   probe>>

\* The GET of line 60 ends once the peer answers or drops the connection.
unblock(c, t) ==
    /\ pc[c] = "blocked"
    /\ HealthAt(port) # "hang"
    /\ t > elapsed[c]
    /\ poll_answer(c, HealthAt(port))
    /\ elapsed' = [elapsed EXCEPT ![c] = t]
    /\ pc' = [pc EXCEPT ![c] = "poll"]
    /\ UNCHANGED <<audioVars, listVars, port, server_thread, units, taken, foreignMode, out, afterDown,
                   probe>>

\* Variant: the stored flag is returned instead of a live probe.
is_running_result_cached == port # 0 /\ server_started

\* The value is_server_running returns, lines 68-74 (timeout=1: a peer that
\* does not answer gives False).
is_running_result == port # 0 /\ HealthAt(port) = "200"

\* Variant: the result of the probe is stored in self.server_started.
is_server_running_caching(c) ==
    /\ pc[c] = "idle"
    /\ probe' = IF port = 0 THEN "unset"
                ELSE IF is_running_result THEN "up" ELSE "down"
    /\ server_started' = is_running_result
    /\ UNCHANGED <<audioVars, listVars, port, server_thread, units, taken, foreignMode,
                   pc, elapsed, out, got200, afterDown, everReady>>

\* is_server_running, lines 66-74.
is_server_running(c) ==
    /\ pc[c] = "idle"
    /\ probe' = IF port = 0 THEN "unset"
                ELSE IF is_running_result THEN "up" ELSE "down"
    /\ UNCHANGED <<audioVars, listVars, port, server_thread, server_started, units, taken, foreignMode,
                   pc, elapsed, out, got200, afterDown, everReady>>

\* A variant with the port written into the call instead of self.port.
run_fastapi_fixed_port(u) ==
    /\ units[u].st = "starting"
    /\ units' = [units EXCEPT ![u] =
                    IF Bindable(StartPort) THEN [st |-> "listening", port |-> StartPort]
                    ELSE [st |-> "failed", port |-> 0]]
    /\ UNCHANGED <<audioVars, listVars, port, server_thread, server_started, taken, foreignMode, pc,
                   elapsed, out, got200, afterDown, probe, everReady>>

\* run_fastapi, lines 50-51: uvicorn reads self.port and binds it; a failed
\* bind ends the thread ("failed": dead without ever having listened).
run_fastapi(u) ==
    /\ units[u].st = "starting"
    /\ units' = [units EXCEPT ![u] =
                    IF Bindable(port) THEN [st |-> "listening", port |-> port]
                    ELSE [st |-> "failed", port |-> 0]]
    /\ UNCHANGED <<audioVars, listVars, port, server_thread, server_started, taken, foreignMode, pc,
                   elapsed, out, got200, afterDown, probe, everReady>>

\* The event loop is held by a handler inside a blocking requests.get
\* (lines 104, 133): the thread lives and /health gets no answer.
unit_stall(u) ==
    /\ units[u].st = "listening"
    /\ units' = [units EXCEPT ![u].st = "stalled"]
    /\ UNCHANGED <<audioVars, listVars, port, server_thread, server_started, taken, foreignMode, pc,
                   elapsed, out, got200, afterDown, probe, everReady>>

unit_resume(u) ==
    /\ units[u].st = "stalled"
    /\ units' = [units EXCEPT ![u].st = "listening"]
    /\ UNCHANGED <<audioVars, listVars, port, server_thread, server_started, taken, foreignMode, pc,
                   elapsed, out, got200, afterDown, probe, everReady>>

\* uvicorn.run returns (line 51): the thread ends and its socket closes.
unit_exit(u) ==
    /\ units[u].st \in {"listening", "stalled"}
    /\ units' = [units EXCEPT ![u] = [st |-> "dead", port |-> 0]]
    /\ UNCHANGED <<audioVars, listVars, port, server_thread, server_started, taken, foreignMode, pc,
                   elapsed, out, got200, afterDown, probe, everReady>>

\* Another process binds a port, releases one, or changes its behaviour.
foreign_take(p) ==
    /\ Bindable(p)
    /\ taken' = taken \cup {p}
    /\ UNCHANGED <<audioVars, listVars, port, server_thread, server_started, units, foreignMode, pc,
                   elapsed, out, got200, afterDown, probe, everReady>>

foreign_release(p) ==
    /\ p \in taken
    /\ taken' = taken \ {p}
    /\ UNCHANGED <<audioVars, listVars, port, server_thread, server_started, units, foreignMode, pc,
                   elapsed, out, got200, afterDown, probe, everReady>>

foreign_mode(m) ==
    /\ m # foreignMode
    /\ foreignMode' = m
    /\ UNCHANGED <<audioVars, listVars, port, server_thread, server_started, units, taken, pc,
                   elapsed, out, got200, afterDown, probe, everReady>>

\* ServerManager.__init__, lines 26-29, in any surroundings.
ManagerInit ==
    /\ port = 0
    /\ server_thread = 0
    /\ server_started = FALSE
    /\ units = [u \in Units |-> [st |-> "unborn", port |-> 0]]
    /\ taken \in SUBSET Ports
    /\ foreignMode \in ForeignModes
    /\ pc = [c \in Callers |-> "idle"]
    /\ elapsed = [c \in Callers |-> 0]
    /\ out = [c \in Callers |-> "none"]
    /\ got200 = [c \in Callers |-> FALSE]
    /\ afterDown = [c \in Callers |-> FALSE]
    /\ probe = "none"
    /\ everReady = FALSE

\* The script calls the manager from one line of control (lines 162-163,
\* 200-201, 224, 269): its calls do not overlap.
SerialCallers == {"main"}

ManagerNext ==
    \/ \E c \in SerialCallers : start_server(c)
    \/ \E c \in SerialCallers : select_port(c)
    \/ \E c \in SerialCallers : launch(c)
    \/ \E c \in SerialCallers : poll(c)
    \/ \E c \in SerialCallers, t \in 1..MaxPolls : unblock(c, t)
    \/ \E c \in SerialCallers : is_server_running(c)
    \/ \E u \in Units : run_fastapi(u)
    \/ \E u \in Units : unit_stall(u)
    \/ \E u \in Units : unit_resume(u)
    \/ \E u \in Units : unit_exit(u)
    \/ \E p \in Ports : foreign_take(p)
    \/ \E p \in Ports : foreign_release(p)
    \/ \E m \in ForeignModes : foreign_mode(m)

vars == <<audioVars, listVars, mgrVars>>

Init ==
    /\ AudioInit
    /\ listing = NoListing
    /\ listReply = NoReply
    /\ ManagerInit

AudioStart == Init /\ taken = {} /\ foreignMode = "err"

ManagerStart == Init /\ excStr = "text"

AudioSpec == AudioStart /\ [][AudioNext]_vars

ListInit ==
    /\ remote = InitialRemote
    /\ cache \in CacheStates
    /\ req = [i \in 1..MaxRequests |-> NewReq]
    /\ calls = [p \in Paths |-> 0]
    /\ excStr = "text"
    /\ listing \in ListResponses
    /\ listReply = NoReply
    /\ ManagerInit
    /\ taken = {}
    /\ foreignMode = "err"

ListNext == list_audio_files

ListSpec == ListInit /\ [][ListNext]_vars

ManagerSpec == ManagerStart /\ [][ManagerNext]_vars

\* Two lines of control call the manager at once (ServerManager has no lock):
\* every step of one call may fall between two steps of the other.  No other
\* process is on the ports and the service is left to run.
ConcurrentStart == ManagerStart /\ taken = {} /\ foreignMode = "err"

ConcurrentNext ==
    \/ \E c \in Callers : start_server(c)
    \/ \E c \in Callers : select_port(c)
    \/ \E c \in Callers : launch(c)
    \/ \E c \in Callers : poll(c)
    \/ \E c \in Callers : is_server_running(c)
    \/ \E u \in Units : run_fastapi(u)
    \/ \E u \in Units : unit_exit(u)

ConcurrentSpec == ConcurrentStart /\ [][ConcurrentNext]_vars

\* The threads run: the launched thread reaches uvicorn's bind and the caller's
\* own code advances.  The caller comes back to is_server_running again and
\* again (lines 162, 200).  Other processes and faults are under no obligation.
ManagerFairSpec ==
    /\ ManagerSpec
    /\ WF_vars(\E u \in Units : run_fastapi(u))
    /\ WF_vars(\E c \in SerialCallers : select_port(c))
    /\ WF_vars(\E c \in SerialCallers : launch(c))
    /\ WF_vars(\E c \in SerialCallers : poll(c))
    /\ WF_vars(\E c \in SerialCallers, t \in 1..MaxPolls : unblock(c, t))
    /\ SF_vars(\E c \in SerialCallers : is_server_running(c))

\* ------------------------------------------------------------------ claims

\* C1: /audio contacts the remote source only when the cache holds no entry
\* for the base name of file_path, so a repeated request for a file already
\* fetched makes no further remote call.
C1_RemoteOnlyWhenUncached ==
    [][\A p \in Paths : calls'[p] > calls[p] => cache[basename(p)] = NoEntry]_vars

\* C2: with A and B sharing a base name, once A and then B have been
\* requested and served, a following request for A that is answered 200
\* carries the bytes fetched for B.
C2_CollisionServesSecond ==
    \A i \in 1..(MaxRequests - 2) :
        ( /\ req[i].pc = "done" /\ req[i].path = PathA /\ req[i].status = 200
          /\ req[i + 1].pc = "done" /\ req[i + 1].path = PathB
          /\ req[i + 1].status = 200 /\ req[i + 1].solo
          /\ req[i + 2].pc = "done" /\ req[i + 2].path = PathA /\ req[i + 2].solo
          /\ req[i + 2].status = 200 )
        => req[i + 2].body = req[i + 1].fetched

\* A port some socket holds: another process, or a unit of this process.
InUse(q) ==
    \/ q \in taken
    \/ \E u \in Units : units[u].st \in {"listening", "stalled"} /\ units[u].port = q

UnitAlive(u) == units[u].st \in {"starting", "listening", "stalled"}

\* C3: a unit launched by start_server whose bind succeeds and which stays
\* in service leads to is_server_running returning True.
C3_EventuallyRunning ==
    \A u \in Units :
        (units[u].st = "starting") ~> (units[u].st \in {"dead", "failed", "stalled"} \/ probe = "up")

C3_Witness ==
    /\ probe = "up"
    /\ out["main"] = "done"
    /\ server_thread # 0
    /\ units[server_thread] = [st |-> "listening", port |-> port]

\* C4: start_server called while the thread of the previous launch is alive
\* returns at once: port, thread reference, flag and units are unchanged and
\* no port is probed, no thread launched, no health GET issued, whether or
\* not that thread answers /health.
C4_NoOpWhileAlive ==
    [][\A c \in Callers :
         (start_server(c) /\ server_thread # 0 /\ UnitAlive(server_thread))
         => /\ UNCHANGED <<port, server_thread, server_started, units, elapsed>>
            /\ pc'[c] = "idle"
            /\ out'[c] = "noop"]_vars

C4_Witness ==
    /\ out["main"] = "noop"
    /\ pc["main"] = "idle"
    /\ server_thread # 0
    /\ units[server_thread].st = "stalled"
    /\ server_started

\* C5: find_available_port returns no port that is in use and, when a port
\* of the range is free, the lowest free one; with none free it raises.
C5_LowestFreePort ==
    [][\A c \in Callers :
         select_port(c)
         => IF \E q \in Ports : ~InUse(q)
            THEN /\ port' \in Ports
                 /\ ~InUse(port')
                 /\ \A q \in Ports : q < port' => InUse(q)
            ELSE /\ out'[c] = "raised"
                 /\ port' = port]_vars

C5_Witness ==
    /\ pc["main"] = "launch"
    /\ port = StartPort + 1
    /\ StartPort \in taken
    /\ (StartPort + 1) \notin taken

\* C6: a launching start_server resets the flag when it selects its port, and
\* returns without raising with the flag true exactly when a GET of its
\* readiness poll answered 200.
C6_FlagIffProbeSucceeded ==
    [][\A c \in Callers :
         /\ (pc[c] = "find" /\ pc'[c] = "launch") => ~server_started'
         /\ (pc[c] = "poll" /\ pc'[c] = "idle")
            => /\ out'[c] = "done"
               /\ server_started' <=> got200'[c]]_vars

C6_Witness ==
    /\ pc["main"] = "idle"
    /\ out["main"] = "done"
    /\ everReady
    /\ ~server_started
    /\ server_thread = 2

\* C7: is_server_running answers False without a GET while port is None,
\* otherwise True exactly when something answers 200 on the port now; it
\* leaves the manager's fields as they are, whatever the stored flag says.
C7_LiveProbe ==
    [][\A c \in Callers :
         is_server_running(c)
         => /\ UNCHANGED <<port, server_thread, server_started, units, pc>>
            /\ port = 0 => probe' = "unset"
            /\ port # 0 => probe' \in {"up", "down"}
            /\ probe' = "up" <=>
                 /\ port # 0
                 /\ \/ \E u \in Units : units[u] = [st |-> "listening", port |-> port]
                    \/ port \in taken /\ foreignMode = "ok"]_vars

C7_Witness ==
    /\ probe = "down"
    /\ port # 0
    /\ server_started
    /\ pc["main"] = "idle"

\* C8: once the manager has been ready, its service bound to the stored port,
\* and is_server_running has returned False, the next start_server call goes
\* on to select a port and launch.
C8_RelaunchAfterFailedProbe ==
    [][\A c \in Callers :
         ( /\ start_server(c) /\ everReady /\ probe = "down"
           /\ server_thread # 0 /\ units[server_thread].port = port )
         => pc'[c] = "find"]_vars

\* C8 as amended: that call relaunches when the thread of the previous launch
\* is no longer alive and a port of the range is free (flag reset, lowest free
\* port stored, a new thread started); with the thread alive it is a no-op,
\* with no free port it raises and launches nothing.
C8_RelaunchWhenThreadDead ==
    [][\A c \in Callers :
         /\ (start_server(c) /\ everReady /\ probe = "down")
            => IF server_thread # 0 /\ UnitAlive(server_thread)
               THEN pc'[c] = "idle" /\ UNCHANGED <<port, server_thread, server_started, units>>
               ELSE pc'[c] = "find"
         /\ (select_port(c) /\ afterDown[c])
            => IF \E q \in Ports : ~InUse(q)
               THEN /\ pc'[c] = "launch"
                    /\ ~InUse(port')
                    /\ ~server_started'
               ELSE /\ pc'[c] = "idle" /\ out'[c] = "raised"
                    /\ UNCHANGED <<port, server_thread, server_started, units>>
         /\ (launch(c) /\ afterDown[c])
            => /\ server_thread' # server_thread
               /\ units[server_thread'].st = "unborn"
               /\ units'[server_thread'].st = "starting"
               /\ pc'[c] = "poll"]_vars

C8_Witness ==
    /\ afterDown["main"]
    /\ pc["main"] = "poll"
    /\ server_thread = 2
    /\ units[2].st = "starting"
    /\ ~server_started

\* The entries of a listing that /list-audio must name: type "file" and an
\* audio extension in any letter case.
AudioNames == {NameA, NameC, NameE, NameF, NameH}
Kept(items) ==
    {i \in 1..Len(items) :
        items[i].dict /\ items[i].type = "file" /\ items[i].name \in AudioNames}
KthOf(idx, k) == CHOOSE i \in idx : Cardinality({j \in idx : j < i}) = k - 1

\* C9: /list-audio on a directory answers exactly the names of the entries of
\* type "file" with an audio extension (case-insensitive), in listing order.
C9_ListingFiltered ==
    (listReply.status # 0 /\ listing.kind = "list")
    => /\ listReply.status = 200
       /\ Len(listReply.audio_files) = Cardinality(Kept(listing.items))
       /\ \A k \in 1..Len(listReply.audio_files) :
            listReply.audio_files[k] = listing.items[KthOf(Kept(listing.items), k)].name

C9_Witness ==
    /\ listing = [kind |-> "list",
                  items |-> << [dict |-> TRUE, type |-> "file", name |-> NameA],
                               [dict |-> TRUE, type |-> "file", name |-> NameB],
                               [dict |-> TRUE, type |-> "file", name |-> NameC] >>]
    /\ listReply = [status |-> 200, error |-> FALSE, audio_files |-> <<NameA, NameC>>]

\* C10: /list-audio answers 400 with an error body when the listing is no
\* collection and 404 with an error body when the remote call fails, and in
\* every case issues no raw-content fetch and leaves the cache as it was.
C10_ListErrors ==
    [][listReply' # listReply
       => /\ listing.kind = "not_list"
             => listReply'.status = 400 /\ listReply'.error
          /\ listing.kind \in {"transport_error", "http_error"}
             => listReply'.status = 404 /\ listReply'.error
          /\ listReply'.status \in {200, 400, 404}
          /\ UNCHANGED <<cache, calls, req>>]_vars

C10_Witness ==
    /\ listing.kind = "not_list"
    /\ listReply.status = 400
    /\ cache["x.mp3"] = Body1

\* C11: every failure of /audio (transport error, remote error status, file
\* system error) is answered 500 with a JSON body whose error message is not
\* empty, and with no other status.
C11_FailureIs500WithMessage ==
    \A i \in 1..MaxRequests :
        req[i].pc = "done"
        => /\ req[i].status \in {200, 500}
           /\ req[i].status = 500 => req[i].error = "text"

\* C12: when no port of the range can be bound, start_server raises to its
\* caller, starts no thread and leaves the stored port, the thread reference
\* and the running flag as they were.
C12_ExhaustedLeavesState ==
    [][\A c \in Callers :
          (select_port(c) /\ \A q \in Ports : InUse(q))
          => /\ out'[c] = "raised"
             /\ pc'[c] = "idle"
             /\ port' = port
             /\ server_thread' = server_thread
             /\ server_started' = server_started
             /\ units' = units]_vars

\* A second call raised after the first one had made the manager ready: the
\* port and the flag of the first launch are still stored.
C12_Witness ==
    /\ out["main"] = "raised"
    /\ pc["main"] = "idle"
    /\ \A q \in Ports : InUse(q)
    /\ port # 0
    /\ server_thread # 0
    /\ server_started

\* The last handler, in the order the event loop ran them, that wrote a whole
\* body under base name b (0 when there is none), and whether a later handler
\* for b got as far as opening the file.
WroteAll(i) == req[i].pc = "serving" \/ req[i].status = 200

LastWriter(b) ==
    LET W == {i \in 1..MaxRequests : WroteAll(i) /\ basename(req[i].path) = b}
    IN  IF W = {} THEN 0 ELSE CHOOSE i \in W : \A j \in W : j <= i

FailedAfter(b, i) ==
    \E j \in (i + 1)..MaxRequests :
        /\ req[j].pc = "done"
        /\ basename(req[j].path) = b
        /\ req[j].status = 500
        /\ req[j].fetched # NoBytes

\* The handlers that got as far as the write under base name b.
Writers(b) ==
    {k \in 1..MaxRequests :
        req[k].pc # "new" /\ basename(req[k].path) = b /\ req[k].fetched # NoBytes}

\* C13: under any interleaving of /audio requests for one file no request
\* crashes (each ends with 200 or 500) and the cache entry of the base name
\* holds exactly the bytes the last writer wrote, never a mix of two writers;
\* an entry holds nothing but what a request for its own base name wrote, so
\* the entries of the other base names are as they were.
C13_LastWriterWins ==
    /\ \A i \in 1..MaxRequests : req[i].pc = "done" => req[i].status \in {200, 500}
    /\ \A b \in BaseNames :
          /\ (LastWriter(b) # 0 /\ ~FailedAfter(b, LastWriter(b)))
             => cache[b] = req[LastWriter(b)].fetched
          /\ Writers(b) = {} => cache[b] = NoEntry
          /\ cache[b] \in {NoEntry, <<>>} \cup {req[k].fetched : k \in Writers(b)}

\* Three requests for the same file, none finished before the next one's
\* handler ran, fetched different bytes; the entry holds the last one's.
C13_Witness ==
    /\ \A i \in 1..3 : req[i].path = PathA /\ req[i].status = 200
    /\ ~req[2].solo /\ ~req[3].solo
    /\ ~req[1].cached
    /\ req[1].fetched # req[3].fetched
    /\ cache[basename(PathA)] = req[3].fetched

\* C16: a successful /audio request for a file with no cache entry creates
\* the entry of its base name, holding the remote body byte for byte, and
\* changes no other entry.
C16_CreatesOneEntry ==
    [][\A i \in 1..MaxRequests :
          (/\ req[i].pc = "new"
           /\ req'[i].pc = "serving"
           /\ cache[basename(req'[i].path)] = NoEntry)
          => cache' = [cache EXCEPT ![basename(req'[i].path)] = remote[req'[i].path]]]_vars

\* The first request stored y.mp3 while the x.mp3 entry stayed absent, and
\* was answered 200 with those bytes.
C16_Witness ==
    /\ req[1].path = PathC
    /\ ~req[1].cached
    /\ req[1].status = 200
    /\ req[1].body = remote[PathC]
    /\ cache[basename(PathC)] = remote[PathC]
    /\ cache[basename(PathA)] = NoEntry

\* C19: every 200 answer of /audio carries the bytes fetched for that very
\* request, whatever other /audio requests of the same base name do meanwhile.
C19_BodyIsOwnFetch ==
    \A i \in 1..MaxRequests :
        req[i].status = 200 => req[i].body = req[i].fetched

\* C20: an /audio request whose remote fetch fails leaves the cache as it
\* was: no entry is created, truncated or overwritten.
C20_FailedFetchKeepsCache ==
    [][\A i \in 1..MaxRequests :
          (/\ req[i].pc = "new"
           /\ req'[i].pc = "done"
           /\ req'[i].fetched = NoBytes)
          => cache' = cache]_vars

\* A failed fetch for a base name that had an entry: the entry still holds
\* the bytes the earlier request stored.
C20_Witness ==
    /\ req[1].path = PathA /\ req[1].status = 200
    /\ req[2].path = PathB /\ req[2].pc = "done" /\ req[2].status = 500
    /\ req[2].fetched = NoBytes /\ req[2].cached
    /\ req[3].pc = "new"
    /\ cache[basename(PathB)] = req[1].fetched

\* The thread of the last launch ended at its bind: between line 47 and
\* uvicorn's bind another process took the selected port, and still holds it.
PortStolen ==
    /\ server_thread # 0
    /\ units[server_thread].st = "failed"
    /\ port \in taken

\* C14: when the selected port is taken by another process before the service
\* binds it, is_server_running after start_server returns False, whatever the
\* process holding the port does.
C14_FalseWhenPortStolen ==
    [][(is_server_running("main") /\ PortStolen /\ out["main"] = "done")
       => probe' = "down"]_vars

\* C15: every start_server call that launches a thread returns: the readiness
\* loop ends on the first 200 or when the deadline has passed, whatever
\* answers, or does not answer, on the port.
C15_LaunchReturns == (pc["main"] = "poll") ~> (pc["main"] = "idle")

\* At most one thread of the manager is alive, it is the one the manager
\* refers to, and a thread that listens does so on the stored port.
OneUnitOnStoredPort ==
    /\ \A u, v \in Units : (UnitAlive(u) /\ UnitAlive(v)) => u = v
    /\ \A u \in Units : UnitAlive(u) => u = server_thread
    /\ \A u \in Units : units[u].st \in {"listening", "stalled"} => units[u].port = port

\* C18: when start_server calls do not overlap, at most one thread launched by
\* the manager is alive in every reachable state and the stored port changes
\* only while none is alive, so a thread that is alive and listening listens
\* on the stored port.
C18_OneUnitOnStoredPort ==
    [][/\ OneUnitOnStoredPort'
       /\ port' # port => \A u \in Units : ~UnitAlive(u)]_vars

\* A second launch, after the first thread had ended, listens on another port
\* than the first did, and the stored port is that port.
C18_Witness ==
    /\ units[1].st = "dead"
    /\ units[2].st = "listening"
    /\ units[2].port = port
    /\ port # StartPort
    /\ server_thread = 2

\* C17: the liveness check is no mutual exclusion.  A caller passes it
\* whenever the stored thread is not alive, also while another caller is
\* between its own check and its launch; each of the two then launches a
\* thread, and two listeners of one manager can be alive at once.
C17_CheckIsNoLock ==
    [][\A c \in Callers, d \in Callers :
          (/\ c # d
           /\ pc[d] \in {"find", "launch"}
           /\ ~ThreadAlive
           /\ start_server(c))
          => pc'[c] = "find"]_vars

\* Both callers launched: two threads of the one manager listen at once, and
\* the manager refers to one of them only.
C17_Witness ==
    /\ units[1].st = "listening"
    /\ units[2].st = "listening"
    /\ units[1].port # units[2].port
    /\ \A c \in Callers : out[c] = "done"

====
